---- MODULE Spec2Model ----
(***************************************************************************)
(* Model of the rule-normalisation and DNS-resolution pipeline of          *)
(* egress/generate-envoy-config.py: process_allowlist and the functions it *)
(* calls (process_http_rules, process_tcp_rules, rule_applies_to_env,      *)
(* is_ip_or_cidr, parse_cidr, resolve_hostname, sanitize_name).            *)
(*                                                                         *)
(* A Python str is a sequence of one-character strings, a dict is a record *)
(* whose DOMAIN is the set of keys present, a list is a sequence.          *)
(***************************************************************************)
EXTENDS Integers, Sequences, FiniteSets, TLC

(***************************************************************************)
(* Bounds of the model.                                                    *)
(***************************************************************************)
\* longest allowlist (number of entries under the egress key)
MaxEntries == 2
\* longest answer of one getaddrinfo call (duplicates included)
MaxAnswers == 2
\* longest string passed to sanitize_name on its own
MaxNameLen == 3
\* how many times sanitize_name is applied to its own result
MaxCalls == 2

(***************************************************************************)
(* Characters and strings.                                                 *)
(***************************************************************************)
DigitChars == <<"0", "1", "2", "3", "4", "5", "6", "7", "8", "9">>
UpperChars == <<"A", "B", "C", "D", "E", "F", "G", "H", "I", "J", "K", "L", "M",
                "N", "O", "P", "Q", "R", "S", "T", "U", "V", "W", "X", "Y", "Z">>
LowerChars == <<"a", "b", "c", "d", "e", "f", "g", "h", "i", "j", "k", "l", "m",
                "n", "o", "p", "q", "r", "s", "t", "u", "v", "w", "x", "y", "z">>

\* the characters of the model in code point order (the order sorted() uses)
CodePoints == <<"-", ".", "/">> \o DigitChars \o <<":">> \o UpperChars
              \o <<"_">> \o LowerChars

Range(s) == {s[k] : k \in DOMAIN s}

ord(c) == CHOOSE k \in DOMAIN CodePoints : CodePoints[k] = c

\* str.__lt__: lexicographic comparison by code point
RECURSIVE str_lt(_, _)
str_lt(a, b) ==
    IF b = <<>> THEN FALSE
    ELSE IF a = <<>> THEN TRUE
    ELSE IF a[1] # b[1] THEN ord(a[1]) < ord(b[1])
    ELSE str_lt(Tail(a), Tail(b))

\* str(n) for a non-negative int
RECURSIVE str(_)
str(n) ==
    IF n < 10 THEN <<DigitChars[n + 1]>>
    ELSE str(n \div 10) \o <<DigitChars[(n % 10) + 1]>>

\* int(s) for a string of ASCII digits
RECURSIVE int(_)
int(s) ==
    IF s = <<>> THEN 0
    ELSE int(SubSeq(s, 1, Len(s) - 1)) * 10 + (ord(s[Len(s)]) - ord("0"))

Digits == Range(DigitChars)

isdigit(s) == s # <<>> /\ \A k \in DOMAIN s : s[k] \in Digits

\* s.split(sep) for a one-character separator
RECURSIVE split(_, _)
split(s, sep) ==
    IF \A k \in DOMAIN s : s[k] # sep THEN <<s>>
    ELSE LET p == CHOOSE k \in DOMAIN s :
                      s[k] = sep /\ \A m \in 1..(k - 1) : s[m] # sep
         IN <<SubSeq(s, 1, p - 1)>> \o split(SubSeq(s, p + 1, Len(s)), sep)

\* sep.join(parts)
RECURSIVE join(_, _)
join(sep, parts) ==
    IF parts = <<>> THEN <<>>
    ELSE IF Len(parts) = 1 THEN parts[1]
    ELSE parts[1] \o sep \o join(sep, Tail(parts))

\* str.lower() on the protocol values of the model
lower(p) ==
    CASE p = "HTTP" -> "http"
      [] p = "TCP" -> "tcp"
      [] p = "UDP" -> "udp"
      [] OTHER -> p

(***************************************************************************)
(* ipaddress.ip_network(destination, strict=False), as far as the two      *)
(* callers use it: whether it raises ValueError, the network address and   *)
(* the prefix length.                                                      *)
(***************************************************************************)
IPV4LENGTH == 32
IPV6LENGTH == 128

RECURSIVE pow2(_)
pow2(n) == IF n = 0 THEN 1 ELSE 2 * pow2(n - 1)

\* IPv4Address._parse_octet: the octet's value, or -1 for ValueError
parse_octet(o) ==
    IF ~isdigit(o) THEN -1
    ELSE IF Len(o) > 3 THEN -1
    ELSE IF o[1] = "0" /\ Len(o) > 1 THEN -1
    ELSE LET octet_int == int(o)
         IN IF octet_int > 255 THEN -1 ELSE octet_int

\* IPv4Address._ip_int_from_string: the 32-bit address, kept as its four
\* bytes (most significant first), or <<>> for AddressValueError
ip_int_from_string(s) ==
    LET octets == split(s, ".")
    IN IF Len(octets) # 4 THEN <<>>
       ELSE LET parsed == [k \in 1..4 |-> parse_octet(octets[k])]
            IN IF \E k \in 1..4 : parsed[k] = -1 THEN <<>> ELSE parsed

\* IPv4Address.__str__
string_from_ip_int(ip_int) ==
    join(<<".">>, [k \in 1..4 |-> str(ip_int[k])])

\* bit b (1 = most significant, 32 = least significant) of an address
bit(ip_int, b) ==
    (ip_int[((b - 1) \div 8) + 1] \div pow2(7 - ((b - 1) % 8))) % 2

\* ip_int ^ ALL_ONES
invert(ip_int) ==
    [k \in 1..4 |-> 255 - ip_int[k]]

\* ip_int & netmask of prefixlen
mask(ip_int, prefixlen) ==
    [k \in 1..4 |->
        LET kept == IF prefixlen >= 8 * k THEN 8
                    ELSE IF prefixlen <= 8 * (k - 1) THEN 0
                    ELSE prefixlen - 8 * (k - 1)
        IN (ip_int[k] \div pow2(8 - kept)) * pow2(8 - kept)]

\* _count_righthand_zero_bits(number, bits)
count_righthand_zero_bits(ip_int, bits) ==
    CHOOSE z \in 0..bits :
        /\ \A b \in (bits - z + 1)..bits : bit(ip_int, b) = 0
        /\ (z = bits \/ bit(ip_int, bits - z) = 1)

\* _prefix_from_ip_int: the prefix length of a netmask, or -1 for ValueError
prefix_from_ip_int(ip_int) ==
    LET trailing_zeroes == count_righthand_zero_bits(ip_int, IPV4LENGTH)
        prefixlen == IPV4LENGTH - trailing_zeroes
    IN IF \E b \in 1..prefixlen : bit(ip_int, b) = 0 THEN -1
       ELSE prefixlen

\* _prefix_from_prefix_string: the prefix length, or -1 for NetmaskValueError
prefix_from_prefix_string(s, max_prefixlen) ==
    IF ~isdigit(s) THEN -1
    ELSE LET prefixlen == int(s)
         IN IF prefixlen > max_prefixlen THEN -1 ELSE prefixlen

\* _prefix_from_ip_string: a netmask or hostmask in dotted-quad form, or -1
prefix_from_ip_string(s) ==
    LET ip_int == ip_int_from_string(s)
    IN IF ip_int = <<>> THEN -1
       ELSE LET netmask == prefix_from_ip_int(ip_int)
            IN IF netmask # -1 THEN netmask
               ELSE prefix_from_ip_int(invert(ip_int))

\* IPv4Network._make_netmask on the text after the slash
make_netmask(arg) ==
    LET prefixlen == prefix_from_prefix_string(arg, IPV4LENGTH)
    IN IF prefixlen # -1 THEN prefixlen
       ELSE prefix_from_ip_string(arg)

\* IPv4Network(destination, strict=False)
IPv4Network(destination) ==
    LET addr == split(destination, "/")
        ip_int == ip_int_from_string(addr[1])
        prefixlen == IF Len(addr) = 2 THEN make_netmask(addr[2]) ELSE IPV4LENGTH
        packed == mask(ip_int, prefixlen)
    IN IF Len(addr) > 2 \/ ip_int = <<>> \/ prefixlen = -1
       THEN [ok |-> FALSE]
       ELSE [ok |-> TRUE,
             network_address |-> string_from_ip_int(packed),
             prefixlen |-> prefixlen]

\* _BaseV6._HEXTET_COUNT
HEXTET_COUNT == 8

\* the digits '%x' writes, in order of value
HexChars == DigitChars \o <<"a", "b", "c", "d", "e", "f">>

\* _BaseV6._HEX_DIGITS
HEX_DIGITS == Range(HexChars) \cup {"A", "B", "C", "D", "E", "F"}

\* the value of one hexadecimal digit, either case
hex_value(c) ==
    IF c \in Range(HexChars)
    THEN (CHOOSE k \in DOMAIN HexChars : HexChars[k] = c) - 1
    ELSE (CHOOSE k \in DOMAIN UpperChars : UpperChars[k] = c) + 9

\* int(s, 16) for a non-empty string of hexadecimal digits
RECURSIVE int16(_)
int16(s) ==
    IF s = <<>> THEN 0
    ELSE int16(SubSeq(s, 1, Len(s) - 1)) * 16 + hex_value(s[Len(s)])

\* '%x' % n
RECURSIVE hex(_)
hex(n) ==
    IF n < 16 THEN <<HexChars[n + 1]>>
    ELSE hex(n \div 16) \o <<HexChars[(n % 16) + 1]>>

\* _BaseV6._parse_hextet: the hextet's value, or -1 for ValueError (int('',
\* 16) raises it for the empty string)
parse_hextet(hextet_str) ==
    IF ~(Range(hextet_str) \subseteq HEX_DIGITS) THEN -1
    ELSE IF Len(hextet_str) > 4 THEN -1
    ELSE IF hextet_str = <<>> THEN -1
    ELSE int16(hextet_str)

\* _BaseV6._ip_int_from_string, lines "if '.' in parts[-1]": an IPv4-style
\* suffix becomes two hextets; <<>> for AddressValueError
with_ipv4_suffix(parts) ==
    LET last == parts[Len(parts)]
    IN IF "." \notin Range(last) THEN parts
       ELSE LET ipv4_int == ip_int_from_string(last)
            IN IF ipv4_int = <<>> THEN <<>>
               ELSE SubSeq(parts, 1, Len(parts) - 1)
                    \o <<hex(ipv4_int[1] * 256 + ipv4_int[2]),
                         hex(ipv4_int[3] * 256 + ipv4_int[4])>>

\* _BaseV6._ip_int_from_string on the parts: the 128-bit address, kept as
\* its eight hextets (most significant first), or <<>> for AddressValueError
hextets_from_parts(parts) ==
    LET n == Len(parts)
        skips == {k \in 2..(n - 1) : parts[k] = <<>>}
    IN IF n > HEXTET_COUNT + 1 \/ Cardinality(skips) > 1 THEN <<>>
       ELSE IF skips # {}
       THEN LET skip_index == CHOOSE k \in skips : TRUE
                parts_hi == IF parts[1] = <<>> THEN skip_index - 2
                            ELSE skip_index - 1
                parts_lo == IF parts[n] = <<>> THEN n - skip_index - 1
                            ELSE n - skip_index
                parts_skipped == HEXTET_COUNT - (parts_hi + parts_lo)
                parsed == [k \in 1..HEXTET_COUNT |->
                              IF k <= parts_hi
                              THEN parse_hextet(parts[k])
                              ELSE IF k <= parts_hi + parts_skipped THEN 0
                              ELSE parse_hextet(parts[k - HEXTET_COUNT + n])]
            IN IF parts[1] = <<>> /\ parts_hi # 0 THEN <<>>
               ELSE IF parts[n] = <<>> /\ parts_lo # 0 THEN <<>>
               ELSE IF parts_skipped < 1 THEN <<>>
               ELSE IF \E k \in 1..HEXTET_COUNT : parsed[k] = -1 THEN <<>>
               ELSE parsed
       ELSE IF n # HEXTET_COUNT \/ parts[1] = <<>> \/ parts[n] = <<>> THEN <<>>
       ELSE LET parsed == [k \in 1..HEXTET_COUNT |-> parse_hextet(parts[k])]
            IN IF \E k \in 1..HEXTET_COUNT : parsed[k] = -1 THEN <<>>
               ELSE parsed

\* _BaseV6._ip_int_from_string (the strings of the model have no '%', so
\* _split_scope_id returns the string and no scope)
ip_int_from_string_v6(ip_str) ==
    LET parts == split(ip_str, ":")
    IN IF Len(parts) < 3 THEN <<>>
       ELSE LET hextet_parts == with_ipv4_suffix(parts)
            IN IF hextet_parts = <<>> THEN <<>>
               ELSE hextets_from_parts(hextet_parts)

\* packed & int(netmask) on the eight hextets
mask_v6(ip_int, prefixlen) ==
    [k \in 1..HEXTET_COUNT |->
        LET kept == IF prefixlen >= 16 * k THEN 16
                    ELSE IF prefixlen <= 16 * (k - 1) THEN 0
                    ELSE prefixlen - 16 * (k - 1)
        IN (ip_int[k] \div pow2(16 - kept)) * pow2(16 - kept)]

\* the loop of _BaseV6._compress_hextets from position index on:
\* <<best_doublecolon_start, best_doublecolon_len>>, 0 standing for the
\* code's -1 (positions are 1-based here)
RECURSIVE best_doublecolon(_, _, _, _, _, _)
best_doublecolon(hextets, index, doublecolon_start, doublecolon_len,
                 best_doublecolon_start, best_doublecolon_len) ==
    IF index > Len(hextets) THEN <<best_doublecolon_start, best_doublecolon_len>>
    ELSE IF hextets[index] = <<"0">>
    THEN LET start == IF doublecolon_start = 0 THEN index ELSE doublecolon_start
         IN IF doublecolon_len + 1 > best_doublecolon_len
            THEN best_doublecolon(hextets, index + 1, start, doublecolon_len + 1,
                                  start, doublecolon_len + 1)
            ELSE best_doublecolon(hextets, index + 1, start, doublecolon_len + 1,
                                  best_doublecolon_start, best_doublecolon_len)
    ELSE best_doublecolon(hextets, index + 1, 0, 0,
                          best_doublecolon_start, best_doublecolon_len)

\* _BaseV6._compress_hextets: the first longest run of two or more "0"
\* hextets becomes one empty string (and one more at either end of the list)
compress_hextets(hextets) ==
    LET best == best_doublecolon(hextets, 1, 0, 0, 0, 0)
        best_doublecolon_end == best[1] + best[2]
    IN IF best[2] <= 1 THEN hextets
       ELSE (IF best[1] = 1 THEN <<<<>>>> ELSE <<>>)
            \o SubSeq(hextets, 1, best[1] - 1)
            \o <<<<>>>>
            \o SubSeq(hextets, best_doublecolon_end, Len(hextets))
            \o (IF best_doublecolon_end = Len(hextets) + 1 THEN <<<<>>>> ELSE <<>>)

\* _BaseV6._string_from_ip_int: IPv6Address.__str__
string_from_ip_int_v6(ip_int) ==
    join(<<":">>, compress_hextets([k \in 1..HEXTET_COUNT |-> hex(ip_int[k])]))

\* IPv6Network(destination, strict=False): the text after the slash is a
\* prefix length only (no netmask form)
IPv6Network(destination) ==
    LET addr == split(destination, "/")
        ip_int == ip_int_from_string_v6(addr[1])
        prefixlen == IF Len(addr) = 2
                     THEN prefix_from_prefix_string(addr[2], IPV6LENGTH)
                     ELSE IPV6LENGTH
        packed == mask_v6(ip_int, prefixlen)
    IN IF Len(addr) > 2 \/ ip_int = <<>> \/ prefixlen = -1
       THEN [ok |-> FALSE]
       ELSE [ok |-> TRUE,
             network_address |-> string_from_ip_int_v6(packed),
             prefixlen |-> prefixlen]

\* ipaddress.ip_network: IPv4Network first, IPv6Network second, else ValueError
ip_network(destination) ==
    LET v4 == IPv4Network(destination)
    IN IF v4.ok THEN v4 ELSE IPv6Network(destination)

\* the characters the pattern [^a-zA-Z0-9] leaves alone
Alphanumerics ==
    Range(LowerChars) \cup Range(UpperChars) \cup Range(DigitChars)

\* re.sub with an empty replacement: the other characters are removed
sanitize_name_removing(name) ==
    SelectSeq(name, LAMBDA c : c \in Alphanumerics)

\* re.sub(r"[^a-zA-Z0-9]", "_", name)
sanitize_name(name) ==
    [k \in DOMAIN name |-> IF name[k] \in Alphanumerics THEN name[k] ELSE "_"]

\* dict.get(key, default)
get(rule, key, default) ==
    IF key \in DOMAIN rule THEN rule[key] ELSE default

\* rule_applies_to_env without its "no envs means every environment" branch
rule_applies_to_env_listed_only(rule, env) ==
    env \in Range(get(rule, "envs", <<>>))

rule_applies_to_env(rule, env) ==
    LET envs == get(rule, "envs", <<>>)
    IN IF envs = <<>> THEN TRUE
       ELSE env \in Range(envs)

\* sorted(list(set(...))) on strings
RECURSIVE sorted(_)
sorted(S) ==
    IF S = {} THEN <<>>
    ELSE LET m == CHOOSE x \in S : \A y \in S \ {x} : str_lt(x, y)
         IN <<m>> \o sorted(S \ {m})

(***************************************************************************)
(* The inputs of the model: allowlist documents, target environments and   *)
(* the answers of socket.getaddrinfo.                                      *)
(***************************************************************************)
IP_A == <<"1", "0", ".", "0", ".", "0", ".", "1">>
NET_A == <<"1", "0", ".", "0", ".", "0", ".", "5", "/", "2", "4">>
HOST_A == <<"a", ".", "i", "o">>
HOST_B == <<"B", "-", "2", ".", "i", "o">>
HOST_BAD == <<"a", ".", ".", "i", "o">>
IP6_A == <<":", ":", "1">>
NET6_A == <<"f", "e", "8", "0", ":", ":", "1", "/", "6", "4">>
ANSWER_1 == <<"1", "0", ".", "1", ".", "1", ".", "1">>
ANSWER_9 == <<"9", ".", "9", ".", "9", ".", "9">>

\* the strings process_tcp_rules classifies: the destinations of EntryPool
DestinationPool == {IP_A, NET_A, IP6_A, NET6_A, HOST_A, HOST_B, HOST_BAD}

\* ipaddress.ip_network is a pure function of the string: what it does for
\* each destination of the model, computed once
ip_network_results ==
    [destination \in DestinationPool |-> ip_network(destination)]

is_ip_or_cidr(destination) ==
    ip_network_results[destination].ok

\* <<ip_address, prefix_len>>
parse_cidr(destination) ==
    LET network == ip_network_results[destination]
    IN IF network.ok THEN <<network.network_address, network.prefixlen>>
       ELSE <<destination, 32>>

AnswerPool == {ANSWER_1, ANSWER_9}
TargetEnvs == {"dev", "stg", "prd"}

EntryPool ==
    { [protocol |-> "HTTP", domains |-> <<HOST_A, HOST_B>>, destination |-> HOST_B,
       port |-> 8443, envs |-> <<>>],
      [protocol |-> "http", destination |-> HOST_B, envs |-> <<"prd">>,
       description |-> "api"],
      [protocol |-> "http", port |-> 80],
      [protocol |-> "http", domains |-> <<>>],
      [protocol |-> "http", destination |-> HOST_A, port |-> 0],
      [protocol |-> "tcp", destinations |-> <<NET_A, HOST_A>>, port |-> 443,
       port_range |-> [start |-> 1, end |-> 2]],
      [protocol |-> "tcp", destinations |-> <<HOST_A, HOST_B>>,
       port_range |-> [start |-> 8000, end |-> 8010]],
      [protocol |-> "tcp", destination |-> IP_A, port |-> 0],
      [destination |-> IP_A, port_range |-> [start |-> 9000, end |-> 8000]],
      [protocol |-> "tcp", destination |-> IP_A],
      [protocol |-> "tcp", destinations |-> <<IP6_A, NET6_A>>, port |-> 443],
      [protocol |-> "tcp", destinations |-> <<IP_A, HOST_BAD>>, port |-> 443],
      [protocol |-> "TCP", port |-> 443],
      [protocol |-> "udp", destination |-> IP_A, port |-> 53],
      [protocol |-> "tcp", destinations |-> <<>>, port |-> 443],
      [protocol |-> "tcp", destination |-> HOST_A, destinations |-> <<IP_A>>,
       port |-> 22, envs |-> <<"stg", "prd">>, description |-> "db"] }

SeqsUpTo(S, n) == UNION {[1..m -> S] : m \in 0..n}

\* what yaml.safe_load returns: None for an empty file, else a mapping with
\* or without the egress key
Documents ==
    {[kind |-> "None"], [kind |-> "mapping", keys |-> [version |-> 1]]}
    \cup {[kind |-> "mapping", keys |-> [egress |-> es]] :
            es \in SeqsUpTo(EntryPool, MaxEntries)}

\* the longest label the idna codec encodes
MAX_LABEL == 63

\* socket.getaddrinfo encodes the host name with the idna codec, which raises
\* UnicodeError for an ASCII name with an empty label before the last one or
\* a label longer than 63 characters
idna_encodes(hostname) ==
    LET labels == split(hostname, ".")
    IN /\ \A k \in 1..(Len(labels) - 1) :
             0 < Len(labels[k]) /\ Len(labels[k]) <= MAX_LABEL
       /\ Len(labels[Len(labels)]) <= MAX_LABEL

\* what socket.getaddrinfo does with a host name: UnicodeError when the name
\* does not encode, else a non-empty list of addresses (unsorted, possibly
\* repeated) or socket.gaierror (NXDOMAIN, timeout)
GetaddrinfoOutcomes(hostname) ==
    IF ~idna_encodes(hostname) THEN {[kind |-> "UnicodeError"]}
    ELSE {[kind |-> "results", ips |-> a] :
             a \in SeqsUpTo(AnswerPool, MaxAnswers) \ {<<>>}}
         \cup {[kind |-> "gaierror"]}

\* the return value of resolve_hostname for an outcome it survives
resolve_hostname(outcome) ==
    IF outcome.kind = "gaierror" THEN <<>>
    ELSE sorted(Range(outcome.ips))

(***************************************************************************)
(* State.                                                                  *)
(***************************************************************************)
VARIABLES
    config,         \* process_allowlist: the loaded document
    target_env,     \* the target environment
    pc,             \* where the run is: load, http, tcp, tcp_dest, done
                    \* (returned), raised (an exception left the run);
                    \* sanitize when sanitize_name is called on its own
    exception,      \* the exception that left the run, or "None"
    rules,          \* config.get("egress", [])
    i,              \* index (1-based) of the entry the current loop is at
    http_rules,     \* process_http_rules: the result list
    tcp_rules,      \* process_tcp_rules: the result list
    dns_cache,      \* hostname -> resolved list
    destinations,   \* process_tcp_rules locals of the current entry
    port,
    port_range,
    ip_addresses,
    j,              \* index of the destination the inner loop is at
    stderr,         \* the lines printed to sys.stderr, each with the entry
    lookups,        \* history: the calls of resolve_hostname, with results
    cache_hits,     \* history: the hostnames served from dns_cache
    trace,          \* history: per loop iteration, the branch it ended on
    origin,         \* history: for each element of ip_addresses, the
                    \* destination index and the position in its answer
    http_src,       \* history: the entry index of each element of http_rules
    tcp_src,        \* history: entry index and origin of each tcp rule
    sanitize_arg,   \* sanitize_name called on its own: the string passed
    sanitize_returns \* the results of sanitize_name on sanitize_arg, then on
                    \* its own last result

vars == <<config, target_env, pc, exception, rules, i, http_rules, tcp_rules,
          dns_cache, destinations, port, port_range, ip_addresses, j, stderr,
          lookups, cache_hits, trace, origin, http_src, tcp_src,
          sanitize_arg, sanitize_returns>>

\* Python's None for an optional value; a present value v is <<v>>
None == <<>>
Some(v) == <<v>>
value(opt) == opt[1]

\* process_allowlist has made no call yet
NoCalls ==
    /\ exception = "None"
    /\ rules = <<>>
    /\ i = 1
    /\ http_rules = <<>>
    /\ tcp_rules = <<>>
    /\ dns_cache = [h \in {} |-> <<>>]
    /\ destinations = <<>>
    /\ port = None
    /\ port_range = None
    /\ ip_addresses = <<>>
    /\ j = 1
    /\ stderr = <<>>
    /\ lookups = <<>>
    /\ cache_hits = <<>>
    /\ trace = <<>>
    /\ origin = <<>>
    /\ http_src = <<>>
    /\ tcp_src = <<>>

Init ==
    /\ config \in Documents
    /\ target_env \in TargetEnvs
    /\ pc = "load"
    /\ sanitize_arg = <<>>
    /\ sanitize_returns = <<>>
    /\ NoCalls

tcp_locals == <<destinations, port, port_range, ip_addresses, j, origin>>
sanitize_vars == <<sanitize_arg, sanitize_returns>>
history == <<lookups, cache_hits, trace, http_src, tcp_src>>

\* an exception propagates out of process_allowlist
raise(name) ==
    /\ pc' = "raised"
    /\ exception' = name

\* print(..., file=sys.stderr)
print(lines) ==
    stderr' = stderr \o [k \in DOMAIN lines |-> [entry |-> i, line |-> lines[k]]]

visit(pass, path) ==
    trace' = Append(trace, [pass |-> pass, entry |-> i, path |-> path])

(***************************************************************************)
(* process_allowlist, lines 443-447: load the document, take the entries.  *)
(***************************************************************************)
process_allowlist ==
    /\ pc = "load"
    /\ IF config.kind = "None"
       THEN /\ raise("AttributeError")
            /\ UNCHANGED rules
       ELSE /\ rules' = get(config.keys, "egress", <<>>)
            /\ pc' = "http"
            /\ UNCHANGED exception
    /\ UNCHANGED <<sanitize_vars, config, target_env, i, http_rules, tcp_rules, dns_cache,
                   stderr, tcp_locals, history>>

(***************************************************************************)
(* process_http_rules: one iteration of the loop over the entries.         *)
(***************************************************************************)
\* lines 258-274: the rule appended for an entry; int() of a YAML integer is
\* the integer
http_rule(rule, domains) ==
    LET http_port == get(rule, "port", 443)
        first_domain == domains[1]
    IN [name |-> sanitize_name(first_domain \o <<"_">> \o str(http_port)),
        domains |-> domains,
        port |-> http_port,
        description |-> get(rule, "description", ""),
        envs |-> get(rule, "envs", <<"dev", "stg", "prd">>)]

\* lines 246-250: domains (preferred) or the single destination
http_domains(rule) ==
    IF "domains" \in DOMAIN rule THEN rule.domains
    ELSE <<rule.destination>>

process_http_rules ==
    /\ pc = "http"
    /\ i <= Len(rules)
    /\ LET rule == rules[i]
           protocol == lower(get(rule, "protocol", "tcp"))
       IN IF protocol # "http"
          THEN /\ visit("http", "other_protocol")
               /\ i' = i + 1
               /\ UNCHANGED <<pc, exception, http_rules, http_src, stderr>>
          ELSE IF ~rule_applies_to_env(rule, target_env)
          THEN /\ visit("http", "env_filtered")
               /\ i' = i + 1
               /\ UNCHANGED <<pc, exception, http_rules, http_src, stderr>>
          ELSE IF "domains" \notin DOMAIN rule /\ "destination" \notin DOMAIN rule
          THEN /\ print(<<"WARNING: HTTP rule missing 'destination' or 'domains', skipping">>)
               /\ visit("http", "missing_destination")
               /\ i' = i + 1
               /\ UNCHANGED <<pc, exception, http_rules, http_src>>
          ELSE IF http_domains(rule) = <<>>
          THEN \* domains[0] of an empty list
               /\ raise("IndexError")
               /\ visit("http", "raised")
               /\ UNCHANGED <<i, http_rules, http_src, stderr>>
          ELSE /\ http_rules' = Append(http_rules, http_rule(rule, http_domains(rule)))
               /\ http_src' = Append(http_src, i)
               /\ print(<<"[HTTP]">>)
               /\ visit("http", "appended")
               /\ i' = i + 1
               /\ UNCHANGED <<pc, exception>>
    /\ UNCHANGED <<sanitize_vars, config, target_env, rules, tcp_rules, dns_cache, tcp_locals,
                   lookups, cache_hits, tcp_src>>

\* line 283 and line 450: process_http_rules returns, process_tcp_rules starts
return_http_rules ==
    /\ pc = "http"
    /\ i > Len(rules)
    /\ pc' = "tcp"
    /\ i' = 1
    /\ UNCHANGED <<sanitize_vars, config, target_env, exception, rules, http_rules, tcp_rules,
                   dns_cache, stderr, tcp_locals, history>>

(***************************************************************************)
(* process_tcp_rules: an iteration of the outer loop is the entry's header *)
(* (lines 302-345), one step per destination (lines 347-380) and the       *)
(* emission of the rule (lines 382-425).                                   *)
(***************************************************************************)
\* lines 314-318: the single destination (preferred) or the list
tcp_destinations(rule) ==
    IF "destination" \in DOMAIN rule THEN <<rule.destination>>
    ELSE rule.destinations

process_tcp_rules_entry ==
    /\ pc = "tcp"
    /\ i <= Len(rules)
    /\ LET rule == rules[i]
           protocol == lower(get(rule, "protocol", "tcp"))
       IN IF protocol # "tcp"
          THEN /\ visit("tcp", "other_protocol")
               /\ i' = i + 1
               /\ UNCHANGED <<pc, stderr, tcp_locals>>
          ELSE IF ~rule_applies_to_env(rule, target_env)
          THEN /\ visit("tcp", "env_filtered")
               /\ i' = i + 1
               /\ UNCHANGED <<pc, stderr, tcp_locals>>
          ELSE IF "destination" \notin DOMAIN rule /\ "destinations" \notin DOMAIN rule
          THEN /\ print(<<"WARNING: TCP rule missing 'destination' or 'destinations', skipping">>)
               /\ visit("tcp", "missing_destination")
               /\ i' = i + 1
               /\ UNCHANGED <<pc, tcp_locals>>
          ELSE IF "port" \notin DOMAIN rule /\ "port_range" \notin DOMAIN rule
          THEN /\ print(<<"WARNING: TCP rule missing 'port' or 'port_range', skipping">>)
               /\ visit("tcp", "missing_port")
               /\ i' = i + 1
               /\ destinations' = tcp_destinations(rule)
               /\ UNCHANGED <<pc, port, port_range, ip_addresses, j, origin>>
          ELSE /\ destinations' = tcp_destinations(rule)
               /\ port' = IF "port" \in DOMAIN rule THEN Some(rule.port) ELSE None
               /\ port_range' = IF "port" \in DOMAIN rule THEN None
                                ELSE Some([start |-> rule.port_range.start,
                                           end |-> rule.port_range.end])
               /\ ip_addresses' = <<>>
               /\ origin' = <<>>
               /\ j' = 1
               /\ pc' = "tcp_dest"
               /\ UNCHANGED <<i, stderr, trace>>
    /\ UNCHANGED <<sanitize_vars, config, target_env, exception, rules, http_rules, tcp_rules,
                   dns_cache, lookups, cache_hits, http_src, tcp_src>>

\* line 364 storing only the lookups that resolved
dns_cache_store_resolved_only(cache, destination, ips) ==
    IF ips = <<>> THEN cache
    ELSE [h \in DOMAIN cache \cup {destination} |->
            IF h = destination THEN ips ELSE cache[h]]

\* line 364: dns_cache[destination] = ips
dns_cache_store(cache, destination, ips) ==
    [h \in DOMAIN cache \cup {destination} |->
        IF h = destination THEN ips ELSE cache[h]]

\* lines 373-379 walking the resolved list backwards
extend_ip_addresses_reversed(addresses, ips) ==
    addresses \o [k \in DOMAIN ips |->
                     [address |-> ips[Len(ips) + 1 - k], prefix_len |-> 32]]

\* lines 373-379: one /32 record per resolved address, in the list's order
extend_ip_addresses(addresses, ips) ==
    addresses \o [k \in DOMAIN ips |-> [address |-> ips[k], prefix_len |-> 32]]

extend_origin(ips) ==
    origin' = origin \o [k \in DOMAIN ips |-> <<j, k>>]

process_tcp_rules_destination ==
    /\ pc = "tcp_dest"
    /\ j <= Len(destinations)
    /\ LET destination == destinations[j]
       IN IF is_ip_or_cidr(destination)
          THEN /\ LET parsed == parse_cidr(destination)
                  IN ip_addresses' = Append(ip_addresses,
                         [address |-> parsed[1], prefix_len |-> parsed[2]])
               /\ origin' = Append(origin, <<j, 1>>)
               /\ j' = j + 1
               /\ UNCHANGED <<pc, exception, dns_cache, stderr, lookups,
                              cache_hits, trace>>
          ELSE IF destination \in DOMAIN dns_cache
          THEN /\ cache_hits' = Append(cache_hits, destination)
               /\ ip_addresses' = extend_ip_addresses(ip_addresses, dns_cache[destination])
               /\ extend_origin(dns_cache[destination])
               /\ IF dns_cache[destination] = <<>>
                  THEN print(<<"ERROR: Cannot resolve, skipping">>)
                  ELSE UNCHANGED stderr
               /\ j' = j + 1
               /\ UNCHANGED <<pc, exception, dns_cache, lookups, trace>>
          ELSE \E outcome \in GetaddrinfoOutcomes(destination) :
                  IF outcome.kind = "UnicodeError"
                  THEN \* resolve_hostname catches socket.gaierror only
                       /\ raise(outcome.kind)
                       /\ lookups' = Append(lookups, [hostname |-> destination,
                                                      raised |-> TRUE,
                                                      returned |-> <<>>])
                       /\ visit("tcp", "raised")
                       /\ UNCHANGED <<dns_cache, ip_addresses, origin, j, stderr,
                                      cache_hits>>
                  ELSE LET ips == resolve_hostname(outcome)
                       IN /\ lookups' = Append(lookups, [hostname |-> destination,
                                                         raised |-> FALSE,
                                                         returned |-> ips])
                          /\ dns_cache' = dns_cache_store(dns_cache, destination, ips)
                          /\ ip_addresses' = extend_ip_addresses(ip_addresses, ips)
                          /\ extend_origin(ips)
                          /\ print((IF outcome.kind = "gaierror"
                                    THEN <<"WARNING: Could not resolve">>
                                    ELSE <<>>)
                                   \o (IF ips = <<>>
                                       THEN <<"ERROR: Cannot resolve, skipping">>
                                       ELSE <<>>))
                          /\ j' = j + 1
                          /\ UNCHANGED <<pc, exception, cache_hits, trace>>
    /\ UNCHANGED <<sanitize_vars, config, target_env, rules, i, http_rules, tcp_rules,
                   destinations, port, port_range, http_src, tcp_src>>

\* "if port:" is false for None and for 0
truthy(tcp_port) ==
    tcp_port # None /\ value(tcp_port) # 0

\* lines 387-390: the port or the range as text; None when the code raises
\* TypeError on port_range['start'] (port is 0 and there is no range)
port_str(tcp_port, tcp_port_range) ==
    IF truthy(tcp_port) THEN str(value(tcp_port))
    ELSE IF tcp_port_range = None THEN None
    ELSE str(value(tcp_port_range).start) \o <<"_">>
         \o str(value(tcp_port_range).end)

\* lines 393-409 naming the rule after the first resolved address
tcp_rule_named_by_address(rule, dests, tcp_port, tcp_port_range, addresses) ==
    LET first_dest == addresses[1].address
        ps == port_str(tcp_port, tcp_port_range)
    IN [name |-> sanitize_name(<<"a", "l", "l", "o", "w", "_">> \o first_dest
                               \o <<"_">> \o ps),
        description |-> get(rule, "description", ""),
        destinations |-> dests,
        ip_addresses |-> addresses,
        stat_name |-> sanitize_name(first_dest \o <<"_">> \o ps),
        envs |-> get(rule, "envs", <<"dev", "stg", "prd">>)]
       @@ (IF truthy(tcp_port)
           THEN [port |-> value(tcp_port)]
           ELSE [port_range |-> value(tcp_port_range)])

\* lines 393-409: the rule appended for an entry
tcp_rule(rule, dests, tcp_port, tcp_port_range, addresses) ==
    LET first_dest == dests[1]
        ps == port_str(tcp_port, tcp_port_range)
    IN [name |-> sanitize_name(<<"a", "l", "l", "o", "w", "_">> \o first_dest
                               \o <<"_">> \o ps),
        description |-> get(rule, "description", ""),
        destinations |-> dests,
        ip_addresses |-> addresses,
        stat_name |-> sanitize_name(first_dest \o <<"_">> \o ps),
        envs |-> get(rule, "envs", <<"dev", "stg", "prd">>)]
       @@ (IF truthy(tcp_port)
           THEN [port |-> value(tcp_port)]
           ELSE [port_range |-> value(tcp_port_range)])

process_tcp_rules_emit ==
    /\ pc = "tcp_dest"
    /\ j > Len(destinations)
    /\ IF ip_addresses = <<>>
       THEN /\ print(<<"WARNING: No valid IPs for rule, skipping">>)
            /\ visit("tcp", "no_valid_ips")
            /\ i' = i + 1
            /\ pc' = "tcp"
            /\ UNCHANGED <<exception, tcp_rules, tcp_src>>
       ELSE IF port_str(port, port_range) = None
       THEN /\ raise("TypeError")
            /\ visit("tcp", "raised")
            /\ UNCHANGED <<i, tcp_rules, tcp_src, stderr>>
       ELSE /\ tcp_rules' = Append(tcp_rules,
                   tcp_rule(rules[i], destinations, port, port_range, ip_addresses))
            /\ tcp_src' = Append(tcp_src, [entry |-> i, origin |-> origin])
            /\ print(<<"[TCP]">>)
            /\ visit("tcp", "appended")
            /\ i' = i + 1
            /\ pc' = "tcp"
            /\ UNCHANGED exception
    /\ UNCHANGED <<sanitize_vars, config, target_env, rules, http_rules, dns_cache, tcp_locals,
                   lookups, cache_hits, http_src>>

\* line 427 and line 452: process_tcp_rules returns, process_allowlist
\* returns the pair
return_tcp_rules ==
    /\ pc = "tcp"
    /\ i > Len(rules)
    /\ pc' = "done"
    /\ UNCHANGED <<sanitize_vars, config, target_env, exception, rules, i, http_rules,
                   tcp_rules, dns_cache, stderr, tcp_locals, history>>

Next ==
    \/ process_allowlist
    \/ process_http_rules
    \/ return_http_rules
    \/ process_tcp_rules_entry
    \/ process_tcp_rules_destination
    \/ process_tcp_rules_emit
    \/ return_tcp_rules

Spec == Init /\ [][Next]_vars

(***************************************************************************)
(* sanitize_name on its own: called on any string over a few characters    *)
(* inside and outside the class a-zA-Z0-9, then on its own result.         *)
(***************************************************************************)
NameChars == {"a", "Z", "0", "_", "-", ".", ":"}

Names == SeqsUpTo(NameChars, MaxNameLen)

SanitizeInit ==
    /\ sanitize_arg \in Names
    /\ sanitize_returns = <<>>
    /\ config = [kind |-> "None"]
    /\ target_env = "dev"
    /\ pc = "sanitize"
    /\ NoCalls

\* sanitize_name(name): first on the argument, then on the last result
sanitize_name_call ==
    /\ pc = "sanitize"
    /\ Len(sanitize_returns) < MaxCalls
    /\ sanitize_returns' =
          Append(sanitize_returns,
                 sanitize_name(IF sanitize_returns = <<>> THEN sanitize_arg
                               ELSE sanitize_returns[Len(sanitize_returns)]))
    /\ UNCHANGED <<sanitize_arg, config, target_env, pc, exception, rules, i,
                   http_rules, tcp_rules, dns_cache, stderr, tcp_locals, history>>

SanitizeNext == sanitize_name_call

SanitizeSpec == SanitizeInit /\ [][SanitizeNext]_vars

(***************************************************************************)
(* Vocabulary of the properties: what an entry of the allowlist says,      *)
(* read off the entry itself.                                              *)
(***************************************************************************)
Protocol(e) == lower(get(e, "protocol", "tcp"))

\* the entry's envs is absent or empty or contains the target environment
Included(e) ==
    \/ "envs" \notin DOMAIN e
    \/ e.envs = <<>>
    \/ \E k \in DOMAIN e.envs : e.envs[k] = target_env

HasDestinations(e) == "destination" \in DOMAIN e \/ "destinations" \in DOMAIN e
HasPortSpec(e) == "port" \in DOMAIN e \/ "port_range" \in DOMAIN e

Destinations(e) ==
    IF "destination" \in DOMAIN e THEN <<e.destination>> ELSE e.destinations

\* the iterations of a loop that have ended (by continue, append or raise)
Visits(pass) == {t \in Range(trace) : t.pass = pass}

HttpRulesOf(k) == {n \in DOMAIN http_src : http_src[n] = k}
TcpRulesOf(k) == {n \in DOMAIN tcp_src : tcp_src[n].entry = k}

\* the address records a destination stands for, given the resolutions of
\* this run: the parsed literal, or one /32 per address of the hostname
AddressesOf(d) ==
    IF is_ip_or_cidr(d)
    THEN {[address |-> parse_cidr(d)[1], prefix_len |-> parse_cidr(d)[2]]}
    ELSE IF d \in DOMAIN dns_cache
    THEN {[address |-> dns_cache[d][k], prefix_len |-> 32] :
            k \in DOMAIN dns_cache[d]}
    ELSE {}

EntryAddresses(e) == UNION {AddressesOf(d) : d \in Range(Destinations(e))}

(***************************************************************************)
(* C1: a TCP entry that applies to the target environment and has          *)
(* destinations and a port spec yields exactly one TcpRule when one of its *)
(* destinations is a literal or a hostname that resolved, yields no rule   *)
(* only when no destination produced an address, and the rule's            *)
(* ip_addresses are exactly the addresses of the literals and of the       *)
(* hostnames that resolved.                                                *)
(***************************************************************************)
C1_TcpEntryYieldsOneRule ==
    \A t \in Visits("tcp") :
        LET e == rules[t.entry]
        IN Protocol(e) = "tcp" /\ Included(e) /\ HasDestinations(e) /\ HasPortSpec(e)
           => /\ EntryAddresses(e) # {} => Cardinality(TcpRulesOf(t.entry)) = 1
              /\ TcpRulesOf(t.entry) = {} => EntryAddresses(e) = {}
              /\ \A n \in TcpRulesOf(t.entry) :
                    Range(tcp_rules[n].ip_addresses) = EntryAddresses(e)

(***************************************************************************)
(* C2: within one run each distinct hostname is passed to resolve_hostname *)
(* at most once, whether the first lookup succeeded or came back empty,    *)
(* and every later reference is served from dns_cache with the result of   *)
(* that lookup.                                                            *)
(***************************************************************************)
C2_OneLookupPerHostname ==
    /\ \A a, b \in DOMAIN lookups :
          lookups[a].hostname = lookups[b].hostname => a = b
    /\ \A k \in DOMAIN cache_hits :
          \E a \in DOMAIN lookups :
              /\ lookups[a].hostname = cache_hits[k]
              /\ ~lookups[a].raised
              /\ dns_cache[cache_hits[k]] = lookups[a].returned

\* a hostname whose lookup came back empty has been referenced again
C2_Witness ==
    \E k \in DOMAIN cache_hits :
        /\ dns_cache[cache_hits[k]] = <<>>
        /\ \E h \in DOMAIN dns_cache : dns_cache[h] # <<>>

(***************************************************************************)
(* C3: an entry passes the environment filter exactly when its envs is     *)
(* absent, empty or contains the target environment; an entry whose envs   *)
(* excludes the target produces no rule, an entry without envs is never    *)
(* filtered.                                                               *)
(***************************************************************************)
C3_EnvironmentFilter ==
    /\ \A t \in Range(trace) :
          Protocol(rules[t.entry]) = t.pass
          => (t.path = "env_filtered" <=> ~Included(rules[t.entry]))
    /\ \A n \in DOMAIN http_src : Included(rules[http_src[n]])
    /\ \A n \in DOMAIN tcp_src : Included(rules[tcp_src[n].entry])

\* one entry was excluded by its envs and an entry with no envs key produced
\* a rule
C3_Witness ==
    /\ \E t \in Range(trace) : t.path = "env_filtered"
    /\ \E t \in Range(trace) :
          t.path = "appended" /\ "envs" \notin DOMAIN rules[t.entry]

(***************************************************************************)
(* C4: the rules are in the order of the entries that produced them, an    *)
(* entry produces at most one rule, and a TcpRule's ip_addresses follow    *)
(* the order of the entry's destinations and, for one hostname, the order  *)
(* of the resolver's result.                                               *)
(***************************************************************************)
LexLess(a, b) == a[1] < b[1] \/ (a[1] = b[1] /\ a[2] < b[2])

C4_InputOrder ==
    /\ \A m, n \in DOMAIN http_src : m < n => http_src[m] < http_src[n]
    /\ \A m, n \in DOMAIN tcp_src : m < n => tcp_src[m].entry < tcp_src[n].entry
    /\ \A m \in DOMAIN http_src : \A n \in DOMAIN tcp_src :
          http_src[m] # tcp_src[n].entry
    /\ Len(http_src) = Len(http_rules) /\ Len(tcp_src) = Len(tcp_rules)
    /\ \A n \in DOMAIN tcp_src :
          LET from == tcp_src[n].origin
              ips == tcp_rules[n].ip_addresses
              dests == Destinations(rules[tcp_src[n].entry])
          IN /\ tcp_rules[n].destinations = dests
             /\ Len(from) = Len(ips)
             /\ \A a, b \in DOMAIN from : a < b => LexLess(from[a], from[b])
             /\ \A a \in DOMAIN from :
                   LET d == dests[from[a][1]]
                   IN ips[a].address =
                          IF is_ip_or_cidr(d) THEN parse_cidr(d)[1]
                          ELSE dns_cache[d][from[a][2]]

\* two TCP rules, one of them with a literal followed by a hostname that
\* resolved to two addresses
C4_Witness ==
    /\ Len(tcp_rules) = 2
    /\ \E n \in DOMAIN tcp_rules :
          /\ Len(tcp_rules[n].ip_addresses) = 3
          /\ tcp_src[n].origin = <<<<1, 1>>, <<2, 1>>, <<2, 2>>>>

(***************************************************************************)
(* C5: every TcpRule has exactly one of port and port_range, and a         *)
(* port_range has start <= end.                                            *)
(***************************************************************************)
C5_PortXorRange ==
    \A n \in DOMAIN tcp_rules :
        /\ ("port" \in DOMAIN tcp_rules[n]) # ("port_range" \in DOMAIN tcp_rules[n])
        /\ "port_range" \in DOMAIN tcp_rules[n]
           => tcp_rules[n].port_range.start <= tcp_rules[n].port_range.end

(***************************************************************************)
(* C6: a failing entry (unknown protocol, missing or empty destination or  *)
(* domains, missing or unusable port spec, no destination resolved) is     *)
(* skipped: no exception leaves the run, and the run returns exactly the   *)
(* rules of the other entries.                                             *)
(***************************************************************************)
\* the entries that yield an HTTP rule
YieldsHttp(e) ==
    /\ Protocol(e) = "http"
    /\ Included(e)
    /\ \/ "domains" \in DOMAIN e /\ e.domains # <<>>
       \/ "domains" \notin DOMAIN e /\ "destination" \in DOMAIN e

\* the entries that yield a TCP rule: a usable port spec is a port other
\* than 0, or a range when there is no port
YieldsTcp(e) ==
    /\ Protocol(e) = "tcp"
    /\ Included(e)
    /\ HasDestinations(e)
    /\ \/ "port" \in DOMAIN e /\ e.port # 0
       \/ "port" \notin DOMAIN e /\ "port_range" \in DOMAIN e
    /\ EntryAddresses(e) # {}

RECURSIVE Flatten(_)
Flatten(ss) == IF ss = <<>> THEN <<>> ELSE ss[1] \o Flatten(Tail(ss))

\* the address list of an entry under the resolutions of this run
EntryAddressList(e) ==
    Flatten([k \in DOMAIN Destinations(e) |->
        LET d == Destinations(e)[k]
        IN IF is_ip_or_cidr(d)
           THEN <<[address |-> parse_cidr(d)[1], prefix_len |-> parse_cidr(d)[2]]>>
           ELSE IF d \in DOMAIN dns_cache
           THEN [m \in DOMAIN dns_cache[d] |->
                    [address |-> dns_cache[d][m], prefix_len |-> 32]]
           ELSE <<>>])

\* what process_http_rules returns for the entries that do not fail
RECURSIVE HttpRulesFor(_)
HttpRulesFor(es) ==
    IF es = <<>> THEN <<>>
    ELSE (IF YieldsHttp(es[1])
          THEN <<http_rule(es[1], http_domains(es[1]))>>
          ELSE <<>>) \o HttpRulesFor(Tail(es))

\* what process_tcp_rules returns for the entries that do not fail
RECURSIVE TcpRulesFor(_)
TcpRulesFor(es) ==
    IF es = <<>> THEN <<>>
    ELSE (IF YieldsTcp(es[1])
          THEN <<tcp_rule(es[1], Destinations(es[1]),
                          IF "port" \in DOMAIN es[1] THEN Some(es[1].port) ELSE None,
                          IF "port" \in DOMAIN es[1] THEN None
                          ELSE Some(es[1].port_range),
                          EntryAddressList(es[1]))>>
          ELSE <<>>) \o TcpRulesFor(Tail(es))

C6_FailingEntriesAreSkipped ==
    /\ \A t \in Range(trace) : t.path # "raised"
    /\ pc = "done" => /\ http_rules = HttpRulesFor(rules)
                      /\ tcp_rules = TcpRulesFor(rules)

(***************************************************************************)
(* C7: a run over a document without the top-level key egress ends in a    *)
(* fatal error; it does not return a pair of rule collections.             *)
(***************************************************************************)
C7_MissingEgressIsFatal ==
    config.kind = "mapping" /\ "egress" \notin DOMAIN config.keys
    => pc # "done"

(***************************************************************************)
(* C8: every entry skipped for an unknown protocol, by the environment     *)
(* filter, for missing destination or port fields or because nothing       *)
(* resolved has left a line on the diagnostic stream by the time the loop  *)
(* moves on, and so has every hostname that failed to resolve.             *)
(***************************************************************************)
C8_EverySkipIsReported ==
    /\ \A t \in Range(trace) :
          \/ t.path \in {"env_filtered", "missing_destination", "missing_port",
                         "no_valid_ips"}
          \/ t.path = "other_protocol"
             /\ Protocol(rules[t.entry]) \notin {"http", "tcp"}
          => \E k \in DOMAIN stderr : stderr[k].entry = t.entry
    /\ \A a \in DOMAIN lookups :
          ~lookups[a].raised /\ lookups[a].returned = <<>>
          => \E k \in DOMAIN stderr :
                stderr[k].line \in {"WARNING: Could not resolve",
                                    "ERROR: Cannot resolve, skipping"}

(***************************************************************************)
(* C9: name and stat_name of a TcpRule are functions of the entry's first  *)
(* destination and its port spec alone, whatever the resolver returned.    *)
(***************************************************************************)
\* the port, or start_end for a range
PortOrRangeString(e) ==
    IF "port" \in DOMAIN e THEN str(e.port)
    ELSE str(e.port_range.start) \o <<"_">> \o str(e.port_range.end)

AllowPrefix == <<"a", "l", "l", "o", "w", "_">>

\* C9 as stated: name and stat_name are both sanitize("allow_" + first
\* destination + port string)
C9_BothNamesCarryAllowPrefix ==
    \A n \in DOMAIN tcp_rules :
        LET e == rules[tcp_src[n].entry]
            text == AllowPrefix \o Destinations(e)[1] \o <<"_">> \o PortOrRangeString(e)
        IN /\ tcp_rules[n].name = sanitize_name(text)
           /\ tcp_rules[n].stat_name = sanitize_name(text)

\* C9 with stat_name as line 395 builds it: name is sanitize("allow_" + first
\* destination + "_" + port string), stat_name is the same without "allow_"
C9_NamesFromFirstDestinationAndPort ==
    \A n \in DOMAIN tcp_rules :
        LET e == rules[tcp_src[n].entry]
            text == Destinations(e)[1] \o <<"_">> \o PortOrRangeString(e)
        IN /\ tcp_rules[n].name = sanitize_name(AllowPrefix \o text)
           /\ tcp_rules[n].stat_name = sanitize_name(text)

\* a rule with a port range whose first destination did not resolve and
\* which was kept through a later destination
C9_Witness ==
    \E n \in DOMAIN tcp_rules :
        LET first == tcp_rules[n].destinations[1]
        IN /\ "port_range" \in DOMAIN tcp_rules[n]
           /\ first \in DOMAIN dns_cache
           /\ dns_cache[first] = <<>>
           /\ Len(tcp_rules[n].ip_addresses) = 2

(***************************************************************************)
(* C10: an HTTP entry that applies to the target environment yields one    *)
(* HttpRule with the entry's domains (else its single destination), its    *)
(* port (else 443) and the name sanitize(first domain + "_" + port); an    *)
(* entry with neither key yields no rule.                                  *)
(***************************************************************************)
C10_HttpEntryYieldsItsRule ==
    \A t \in Visits("http") :
        LET e == rules[t.entry]
            doms == IF "domains" \in DOMAIN e THEN e.domains ELSE <<e.destination>>
            prt == IF "port" \in DOMAIN e THEN e.port ELSE 443
        IN Protocol(e) = "http" /\ Included(e)
           => IF "domains" \in DOMAIN e \/ "destination" \in DOMAIN e
              THEN /\ Cardinality(HttpRulesOf(t.entry)) = 1
                   /\ \A n \in HttpRulesOf(t.entry) :
                         /\ http_rules[n].domains = doms
                         /\ http_rules[n].port = prt
                         /\ http_rules[n].name =
                                sanitize_name(doms[1] \o <<"_">> \o str(prt))
              ELSE HttpRulesOf(t.entry) = {}

(***************************************************************************)
(* C11: every HttpRule returned by process_http_rules has a non-empty      *)
(* domains sequence and a port in the range 1..65535.                      *)
(***************************************************************************)
C11_HttpRuleDomainsAndPort ==
    \A k \in DOMAIN http_rules :
        /\ http_rules[k].domains # <<>>
        /\ http_rules[k].port \in 1..65535

\* the prefix length a literal is written with: the decimal number after the
\* slash
WrittenPrefix(d) == int(split(d, "/")[2])

(***************************************************************************)
(* C12: every address record of an emitted TcpRule has prefix_len within   *)
(* 0..32: 32 for a literal destination written without a prefix, the       *)
(* prefix the literal is written with for a CIDR literal, and 32 for every *)
(* address obtained by resolving a hostname; for every destination that    *)
(* is_ip_or_cidr accepts as a literal.                                     *)
(***************************************************************************)
C12_PrefixLenWithinIPv4Range ==
    \A n \in DOMAIN tcp_rules :
        \A k \in DOMAIN tcp_rules[n].ip_addresses :
            LET d == tcp_rules[n].destinations[tcp_src[n].origin[k][1]]
                prefix_len == tcp_rules[n].ip_addresses[k].prefix_len
            IN /\ prefix_len \in 0..32
               /\ IF ~is_ip_or_cidr(d) THEN prefix_len = 32
                  ELSE IF "/" \notin Range(d) THEN prefix_len = 32
                  ELSE isdigit(split(d, "/")[2]) => prefix_len = WrittenPrefix(d)

(***************************************************************************)
(* C13: resolve_hostname never raises: whatever the lookup does, a failed  *)
(* lookup returns an empty sequence after a diagnostic line, and the run   *)
(* goes on with the next destination instead of being aborted by the       *)
(* lookup.                                                                 *)
(***************************************************************************)
C13_ResolveHostnameNeverRaises ==
    /\ \A k \in DOMAIN lookups : ~lookups[k].raised
    /\ \A k \in DOMAIN lookups :
          lookups[k].returned = <<>>
          => \E m \in DOMAIN stderr : stderr[m].line = "WARNING: Could not resolve"
    /\ exception # "UnicodeError"

\* the characters of [A-Za-z0-9_], written out
WordChars ==
    {"a", "b", "c", "d", "e", "f", "g", "h", "i", "j", "k", "l", "m", "n", "o",
     "p", "q", "r", "s", "t", "u", "v", "w", "x", "y", "z",
     "A", "B", "C", "D", "E", "F", "G", "H", "I", "J", "K", "L", "M", "N", "O",
     "P", "Q", "R", "S", "T", "U", "V", "W", "X", "Y", "Z",
     "0", "1", "2", "3", "4", "5", "6", "7", "8", "9", "_"}

(***************************************************************************)
(* C14: sanitize_name is idempotent (applied to its own result it returns  *)
(* that result), its output has the length of its input, every character   *)
(* of the output is in [A-Za-z0-9_], and each character outside            *)
(* [A-Za-z0-9] is replaced by one underscore while the others are kept.    *)
(***************************************************************************)
C14_SanitizeIdempotent ==
    \A k \in DOMAIN sanitize_returns :
        LET x == IF k = 1 THEN sanitize_arg ELSE sanitize_returns[k - 1]
            y == sanitize_returns[k]
        IN /\ Len(y) = Len(x)
           /\ \A m \in DOMAIN y : y[m] \in WordChars
           /\ \A m \in DOMAIN x :
                 y[m] = IF x[m] \in WordChars \ {"_"} THEN x[m] ELSE "_"
           /\ k > 1 => y = x

\* sanitize_name has been applied to a string with a character of the class,
\* an underscore and a character outside the class, and then to its result
C14_Witness ==
    /\ Len(sanitize_returns) >= 2
    /\ "_" \in Range(sanitize_arg)
    /\ \E m \in DOMAIN sanitize_arg : sanitize_arg[m] \notin WordChars
    /\ \E m \in DOMAIN sanitize_arg : sanitize_arg[m] \in WordChars \ {"_"}
    /\ sanitize_returns[1] # sanitize_arg

====
